---- MODULE Spec2Model ----
(***************************************************************************)
(* Model of the yumemachi-canvas kiosk: the image-display form and its     *)
(* handleGenerate handler (public/static/pages/image-display.js), the      *)
(* prompt builders and the style x lighting parameter selection, and the   *)
(* /api/translate-prompt and /api/creative routes they talk to.            *)
(*                                                                         *)
(* Strings are sequences of lexemes.  A fixed template of the source is    *)
(* one lexeme (named after the constant that holds it); text typed by the  *)
(* user is a sequence of single characters, among them "," and "\n", the   *)
(* two characters of the separator used by join(',\n').                    *)
(* Fractions are scaled integers: strength in 1/100, guidance in 1/10.     *)
(***************************************************************************)
EXTENDS Integers, Sequences, FiniteSets, TLC

VARIABLES
    calc,            \* one evaluation of a pure function: its inputs and results
    screen,          \* the page shown: "top", "image-display", "result"
    freeText,        \* textarea#freeText .value
    imageMode,       \* select#imageMode .value
    buildingType,    \* select#buildingType .value
    otherBuilding,   \* input#otherBuilding .value
    autoChecked,     \* input#autoPromptCheckbox .checked
    autoDisabled,    \* input#autoPromptCheckbox .disabled
    buttonDisabled,  \* button#generateButton .disabled
    loadingActive,   \* #loadingOverlay has class "active"
    timer,           \* elapsedTimerInterval and the intervals the page holds
    storage,         \* sessionStorage: generationData, generatedImageUrl
    attempts,        \* the calls of handleGenerate in flight: their locals
    last,            \* the call of handleGenerate that ended last, as it ended
    alertMsg,        \* the argument of the last alert(), empty when none
    edits,           \* how many input events the user has made on the form
    confirm,         \* the confirm page: input#nickname and its pending sends
    server           \* the upload route's module state and its requests

vars == <<calc, screen, freeText, imageMode, buildingType, otherBuilding, autoChecked,
          autoDisabled, buttonDisabled, loadingActive, timer, storage, attempts, last,
          alertMsg, edits, confirm, server>>

\* A value that may be null, undefined or missing is a sequence of length at
\* most one: None, or Some(v).  A string that is null or missing is the
\* empty string where the source only tests it for truthiness.
None == <<>>
Some(v) == <<v>>

-----------------------------------------------------------------------------
(* Strings *)

IsSpace(c) == c \in {" ", "\n"}

RECURSIVE TrimLeft(_)
TrimLeft(s) == IF s # <<>> /\ IsSpace(Head(s)) THEN TrimLeft(Tail(s)) ELSE s

RECURSIVE TrimRight(_)
TrimRight(s) ==
    IF s # <<>> /\ IsSpace(s[Len(s)]) THEN TrimRight(SubSeq(s, 1, Len(s) - 1)) ELSE s

\* String.prototype.trim
Trim(s) == TrimRight(TrimLeft(s))

\* the separator of parts.join(',\n')
SEP == <<",", "\n">>

\* Array.prototype.join
RECURSIVE Join(_, _)
Join(parts, sep) ==
    IF parts = <<>> THEN <<>>
    ELSE IF Len(parts) = 1 THEN parts[1]
    ELSE parts[1] \o sep \o Join(Tail(parts), sep)

\* Array.prototype.filter(Boolean) on an array of strings: '' is falsy
FilterBoolean(parts) == SelectSeq(parts, LAMBDA x : x # <<>>)

\* t occurs in s as a contiguous substring (String.prototype.includes)
Contains(s, t) ==
    \E i \in 0 .. (Len(s) - Len(t)) : SubSeq(s, i + 1, i + Len(t)) = t

\* the first position at which t occurs in s, 0 when it does not
IndexOf(s, t) ==
    IF Contains(s, t)
    THEN CHOOSE i \in 1 .. (Len(s) - Len(t) + 1) :
            /\ SubSeq(s, i, i + Len(t) - 1) = t
            /\ \A j \in 1 .. (i - 1) : SubSeq(s, j, j + Len(t) - 1) # t
    ELSE 0

\* all strings over alphabet of length at most n
RECURSIVE StringsUpTo(_, _)
StringsUpTo(alphabet, n) ==
    IF n = 0 THEN {<<>>}
    ELSE LET shorter == StringsUpTo(alphabet, n - 1)
         IN  shorter \cup {Append(s, c) : s \in shorter, c \in alphabet}

-----------------------------------------------------------------------------
(* Parameter selection of the style x lighting variant *)

Styles == {"photo", "anime", "oil", "watercolor", "digital"}
Lightings == {"natural", "soft", "studio", "dramatic", "backlit"}

\* a select value the tables do not know
UnknownKey == "unknown"

Param(st, sp, g) == [strength |-> st, steps |-> sp, guidance |-> g]

PARAM_TABLE ==
    [s \in Styles |->
        CASE s = "photo" ->
                [l \in Lightings |->
                    CASE l = "natural"  -> Param(40, 35, 70)
                      [] l = "soft"     -> Param(38, 35, 68)
                      [] l = "studio"   -> Param(42, 38, 78)
                      [] l = "dramatic" -> Param(43, 38, 76)
                      [] l = "backlit"  -> Param(40, 35, 66)]
          [] s = "anime" ->
                [l \in Lightings |->
                    CASE l = "natural"  -> Param(65, 45, 83)
                      [] l = "soft"     -> Param(65, 45, 80)
                      [] l = "studio"   -> Param(67, 48, 86)
                      [] l = "dramatic" -> Param(68, 48, 87)
                      [] l = "backlit"  -> Param(66, 46, 81)]
          [] s = "oil" ->
                [l \in Lightings |->
                    CASE l = "natural"  -> Param(70, 50, 82)
                      [] l = "soft"     -> Param(70, 50, 80)
                      [] l = "studio"   -> Param(72, 52, 85)
                      [] l = "dramatic" -> Param(73, 52, 86)
                      [] l = "backlit"  -> Param(71, 50, 81)]
          [] s = "watercolor" ->
                [l \in Lightings |->
                    CASE l = "natural"  -> Param(75, 50, 78)
                      [] l = "soft"     -> Param(75, 50, 76)
                      [] l = "studio"   -> Param(77, 52, 82)
                      [] l = "dramatic" -> Param(78, 52, 83)
                      [] l = "backlit"  -> Param(76, 50, 76)]
          [] s = "digital" ->
                [l \in Lightings |->
                    CASE l = "natural"  -> Param(68, 48, 84)
                      [] l = "soft"     -> Param(68, 48, 81)
                      [] l = "studio"   -> Param(70, 50, 87)
                      [] l = "dramatic" -> Param(71, 50, 88)
                      [] l = "backlit"  -> Param(69, 48, 81)]]

\* a property name every object literal inherits from Object.prototype
\* ('constructor'): a lookup by it finds a function, which is truthy
InheritedKey == "constructor"

\* what a lookup can give besides a record of the table
Undefined == [kind |-> "undefined"]
InheritedFunction == [kind |-> "function"]

\* PARAM_TABLE[style] || PARAM_TABLE["photo"], then [lighting] || ["natural"].
\* PARAM_TABLE["constructor"] is the function Object, which has no lighting
\* property; row["constructor"] is that function again.
getFalParams(style, lighting) ==
    IF style = InheritedKey
    THEN IF lighting = InheritedKey THEN InheritedFunction ELSE Undefined
    ELSE LET styleParams == IF style \in DOMAIN PARAM_TABLE THEN PARAM_TABLE[style]
                            ELSE PARAM_TABLE["photo"]
         IN  IF lighting \in DOMAIN styleParams THEN styleParams[lighting]
             ELSE IF lighting = InheritedKey THEN InheritedFunction
             ELSE styleParams["natural"]

Min(a, b) == IF a < b THEN a ELSE b
Max(a, b) == IF a > b THEN a ELSE b

\* a variant of applySafetyTweaks whose backlit tweak lowers guidance by a delta
applySafetyTweaksDelta(style, lighting, params) ==
    LET p1 == IF lighting = "backlit"
              THEN [params EXCEPT !.guidance = params.guidance - 2]
              ELSE params
    IN  IF lighting = "dramatic"
        THEN [p1 EXCEPT !.steps = Max(30, p1.steps - 2)]
        ELSE p1

\* a variant that takes the 2 steps off without the floor of 30
applySafetyTweaksNoFloor(style, lighting, params) ==
    LET p1 == IF lighting = "backlit"
              THEN [params EXCEPT !.guidance =
                        Min(params.guidance, IF style = "photo" THEN 68 ELSE 82)]
              ELSE params
    IN  IF lighting = "dramatic"
        THEN [p1 EXCEPT !.steps = p1.steps - 2]
        ELSE p1

applySafetyTweaks(style, lighting, params) ==
    LET p1 == IF lighting = "backlit"
              THEN [params EXCEPT !.guidance =
                        Min(params.guidance, IF style = "photo" THEN 68 ELSE 82)]
              ELSE params
    IN  IF lighting = "dramatic"
        THEN [p1 EXCEPT !.steps = Max(30, p1.steps - 2)]
        ELSE p1

-----------------------------------------------------------------------------
(* Prompt templates and builders *)

SCENE_BASE == <<"SCENE_BASE">>
MODIFICATION_INSTRUCTION == <<"MODIFICATION_INSTRUCTION">>
STYLE_TAG == <<"STYLE_TAG">>
LIGHTING_TAG == <<"LIGHTING_TAG">>
COMPOSITION_TAG == <<"COMPOSITION_TAG">>
\* 'Include AT LEAST 30 to 50 people as a mandatory and essential part ...'
VISIBILITY_TAG == <<"VISIBILITY_TAG: AT LEAST 30 to 50 people">>
COMPOSITION_FIXED == <<"COMPOSITION_FIXED">>
COMPOSITION_VALUE == <<"COMPOSITION_VALUE">>
NEGATIVE_PROMPT == <<"NEGATIVE_PROMPT">>
BASE_IMAGE_PATH == <<"/static/images/base-image.jpg">>
MASK_IMAGE_PATH == <<"/static/images/mask-image.png">>
FAL_PARAMS == Param(75, 45, 95)

\* the option values of select#buildingType
BuildingTypes == {"fountain", "merry-go-round", "cafe-stand", "other"}
ClosedBuildings == BuildingTypes \ {"other"}

BUILDING_TYPE_NAMES ==
    [b \in BuildingTypes |->
        CASE b = "fountain"       -> <<"fountain">>
          [] b = "merry-go-round" -> <<"merry-go-round">>
          [] b = "cafe-stand"     -> <<"Stylish cafe stand">>
          [] b = "other"          -> <<>>]

\* STYLE_MAP[style] || STYLE_MAP["photo"]: one lexeme per tag string
StyleTagOf(style) ==
    IF style \in Styles THEN <<"STYLE_MAP", style>> ELSE <<"STYLE_MAP", "photo">>

\* LIGHTING_MAP[lighting] || LIGHTING_MAP["natural"]
LightTagOf(lighting) ==
    IF lighting \in Lightings THEN <<"LIGHTING_MAP", lighting>>
    ELSE <<"LIGHTING_MAP", "natural">>

\* buildPrompt(freeText, style, lighting) of the style x lighting variant
buildPromptStyled(text, style, lighting) ==
    Join(<<SCENE_BASE, StyleTagOf(style), LightTagOf(lighting), COMPOSITION_FIXED,
           <<>>, text>>, SEP)

\* buildPrompt(freeText, style, lighting) of the keyword variant: join(', ')
buildPromptKeywords(text, style, lighting) ==
    Join(<<text, <<"Japanese people">>, style, lighting, COMPOSITION_VALUE>>,
         <<",", " ">>)

\* buildPrompt(freeText) of the first inpainting variant (no visibility tag)
buildPromptInpaint(text) ==
    Join(<<SCENE_BASE, MODIFICATION_INSTRUCTION, STYLE_TAG, LIGHTING_TAG,
           COMPOSITION_TAG, <<>>, text>>, SEP)

\* buildPrompt(freeText) of the last variant
buildPrompt(text) ==
    Join(<<SCENE_BASE, MODIFICATION_INSTRUCTION, STYLE_TAG, LIGHTING_TAG,
           COMPOSITION_TAG, VISIBILITY_TAG, <<>>, text>>, SEP)

\* a variant of buildPromptWithBuilding that forgets .filter(Boolean)
buildPromptWithBuildingNoFilter(text, buildingInstruction) ==
    Join(<<SCENE_BASE, MODIFICATION_INSTRUCTION, buildingInstruction, STYLE_TAG,
           LIGHTING_TAG, COMPOSITION_TAG, VISIBILITY_TAG, <<>>, text>>, SEP)

\* a variant of buildPromptWithBuilding with the crowd clause after the text
buildPromptWithBuildingCrowdLast(text, buildingInstruction) ==
    Join(FilterBoolean(<<SCENE_BASE, MODIFICATION_INSTRUCTION, buildingInstruction,
                         STYLE_TAG, LIGHTING_TAG, COMPOSITION_TAG, <<>>, text,
                         VISIBILITY_TAG>>), SEP)

buildPromptWithBuilding(text, buildingInstruction) ==
    Join(FilterBoolean(<<SCENE_BASE, MODIFICATION_INSTRUCTION, buildingInstruction,
                         STYLE_TAG, LIGHTING_TAG, COMPOSITION_TAG, VISIBILITY_TAG,
                         <<>>, text>>), SEP)

\* `Install a ${buildingTypeName} in the central plaza area`, '' for no name
InstallInstruction(buildingTypeName) ==
    IF buildingTypeName # <<>>
    THEN <<"Install a", " ">> \o buildingTypeName
            \o <<" ", "in the central plaza area">>
    ELSE <<>>

\* a variant of the auto-prompt wrapping that forwards the model's text alone
AutoPromptWrapBare(generated, buildingTypeName) == generated

\* the wrapping of the model's text in handleGenerate's auto-prompt branch
AutoPromptWrap(generated, buildingTypeName) ==
    Join(FilterBoolean(<<SCENE_BASE, MODIFICATION_INSTRUCTION,
                         InstallInstruction(buildingTypeName), STYLE_TAG, LIGHTING_TAG,
                         COMPOSITION_TAG, VISIBILITY_TAG, <<>>, generated>>), SEP)

\* a variant of getBuildingTypeName that ignores the user's text for 'other'
getBuildingTypeNameTable(bType, otherValue) == BUILDING_TYPE_NAMES[bType]

\* a variant of getBuildingTypeName that takes the typed text for every selection
getBuildingTypeNameTyped(bType, otherValue) == otherValue

getBuildingTypeName(bType, otherValue) ==
    IF bType = "other" THEN otherValue
    ELSE IF bType \in DOMAIN BUILDING_TYPE_NAMES THEN BUILDING_TYPE_NAMES[bType]
    ELSE <<>>

\* a variant of the creative template without the installation line
CreativePromptNoBuilding(text, buildingTypeName) ==
    <<"CreativeHead">> \o <<"CreativeTail">> \o <<"User request: ">> \o text

\* creativePrompt of handleGenerate's creative branch
CreativePrompt(text, buildingTypeName) ==
    LET buildingLine == IF buildingTypeName # <<>>
                        THEN <<"\nInstallation type: ">> \o buildingTypeName
                        ELSE <<>>
    IN  <<"CreativeHead">> \o buildingLine \o <<"CreativeTail">>
            \o <<"User request: ">> \o text

-----------------------------------------------------------------------------
(* POST /api/translate-prompt *)

\* what the completion vendor can answer: fetch rejects, a non-2xx status, or a
\* 2xx body whose choices[0].message.content is missing or a string
VendorCompletions ==
    {[kind |-> "throws", content |-> None], [kind |-> "notOk", content |-> None]}
        \cup {[kind |-> "ok", content |-> c] :
                c \in {None, Some(<<>>), Some(<<" ">>), Some(<<"m">>),
                       Some(<<" ", "m", " ", "n", "\n">>)}}

\* without an API key the route answers before it calls the vendor
NotCalled == [kind |-> "notCalled", content |-> None]

\* a variant of the route that answers an empty completion with a stock prompt
translateApiDefaulting(text, hasKey, vendor) ==
    IF Trim(text) = <<>>
    THEN [success |-> FALSE, error |-> <<"text is required">>, status |-> 400]
    ELSE IF ~hasKey
    THEN [success |-> FALSE, error |-> <<"no OpenAI key">>, status |-> 500]
    ELSE IF vendor.kind # "ok"
    THEN [success |-> FALSE, error |-> <<"OpenAI API error">>, status |-> 500]
    ELSE LET generatedPrompt == IF vendor.content = None THEN <<"default prompt">>
                                ELSE Trim(vendor.content[1])
         IN  [success |-> TRUE, status |-> 200,
              prompt |-> IF generatedPrompt = <<>> THEN <<"default prompt">>
                         ELSE generatedPrompt]

\* translateApi.post('/'): the JSON body and status it answers with
translateApi(text, hasKey, vendor) ==
    IF Trim(text) = <<>>
    THEN [success |-> FALSE, error |-> <<"text is required">>, status |-> 400]
    ELSE IF ~hasKey
    THEN [success |-> FALSE, error |-> <<"no OpenAI key">>, status |-> 500]
    ELSE IF vendor.kind = "throws"
    THEN [success |-> FALSE, error |-> <<"prompt generation threw">>, status |-> 500]
    ELSE IF vendor.kind = "notOk"
    THEN [success |-> FALSE, error |-> <<"OpenAI API error">>, status |-> 500]
    ELSE LET generatedPrompt == IF vendor.content = None THEN <<>>
                                ELSE Trim(vendor.content[1])
         IN  IF generatedPrompt = <<>>
             THEN [success |-> FALSE, error |-> <<"prompt generation failed">>,
                   status |-> 500]
             ELSE [success |-> TRUE, status |-> 200, prompt |-> generatedPrompt]

\* what generateAutoPrompt makes of an answer: the prompt it returns, or the
\* message of the Error it throws (result.error || its own message)
generateAutoPrompt(result) ==
    IF result.success
    THEN [thrown |-> FALSE, prompt |-> result.prompt, message |-> <<>>]
    ELSE [thrown |-> TRUE, prompt |-> <<>>,
          message |-> IF result.error # <<>> THEN result.error
                      ELSE <<"auto prompt generation failed">>]

-----------------------------------------------------------------------------
(* handleGenerate: the data it assembles *)

ImageModes == {"faithful", "modern", "creative", "image-centered"}

\* getRandomReferenceImage: the paths Math.random can pick, empty for null
NumReferenceImages == 3
ReferenceChoices(bType) ==
    IF bType \in ClosedBuildings
    THEN {<<"REFERENCE_IMAGES", bType, i>> : i \in 1 .. NumReferenceImages}
    ELSE {<<>>}

\* the generationData object written to sessionStorage
GenerationData(a, prompt) ==
    LET isCreativeMode == a.isCreativeMode
    IN  [prompt |-> prompt,
         negativePrompt |-> IF isCreativeMode THEN None ELSE Some(NEGATIVE_PROMPT),
         baseImageUrl |-> BASE_IMAGE_PATH,
         maskImageUrl |-> IF isCreativeMode THEN None ELSE Some(MASK_IMAGE_PATH),
         params |-> IF isCreativeMode THEN None ELSE Some(FAL_PARAMS),
         options |-> [style |-> IF isCreativeMode THEN "creative" ELSE "photo",
                      lighting |-> IF isCreativeMode THEN "auto" ELSE "natural",
                      composition |-> IF isCreativeMode THEN "auto" ELSE "full",
                      freeText |-> a.freeTextValue,
                      autoPrompt |-> a.isAutoPromptEnabled,
                      imageMode |-> a.imageMode]]

\* the JSON body of fetch('/api/creative')
CreativeBody(a) == [prompt |-> CreativePrompt(a.freeTextValue, a.buildingTypeName)]

\* the JSON body of fetch('/api/generate'); referenceImageUrl is empty when
\* the key is not set
GenerateBody(a, prompt) ==
    [prompt |-> prompt,
     negativePrompt |-> NEGATIVE_PROMPT,
     imageData |-> <<"base64 jpeg of #baseImage">>,
     maskData |-> <<"base64 png of #maskImage">>,
     strength |-> FAL_PARAMS.strength,
     steps |-> FAL_PARAMS.steps,
     guidance |-> FAL_PARAMS.guidance,
     referenceImageUrl |-> a.referenceImagePath]

\* const isCreativeMode = imageMode === 'creative'
IsCreativeMode(mode) == mode = "creative"

\* a variant of the auto-prompt test that trusts the checkbox alone
IsAutoPromptEnabledUnguarded(mode, checked) == checked

\* const isAutoPromptEnabled = !isCreativeMode && autoPromptCheckbox.checked
IsAutoPromptEnabled(mode, checked) == ~IsCreativeMode(mode) /\ checked

-----------------------------------------------------------------------------
(* The image-display page *)

\* the most input events (typing, selecting, clicking the checkbox) followed
MaxEdits == 2

\* what the user types into textarea#freeText and input#otherBuilding
FormTexts == {<<>>, <<" ">>, <<"a">>}
OtherTexts == {<<>>, <<"a">>}

EmptyStorage == [generationData |-> None, generatedImageUrl |-> None, nickname |-> None]
\* the confirm page as loaded: empty input#nickname, no send pending; settled
\* is how the send that left the page ended
NoConfirm == [nickname |-> <<>>, mails |-> {}, settled |-> "none"]
\* the upload route's module as loaded: nothing uploaded, no upload in
\* flight, no request answered yet
NoServer == [uploadedImageUrl |-> None, requests |-> {}, answered |-> None]
\* elapsedTimerInterval is 0 for null
NoTimer == [interval |-> 0, active |-> {}]
NoCalc == [op |-> "none"]
NoAttempt == [pc |-> "none"]

\* the DOM as served by GET /image-display, after the DOMContentLoaded handler:
\* updateButtonState, updateAutoPromptState and updateOtherVisibility have run
PageLoad ==
    /\ screen' = "image-display"
    /\ freeText' = <<>>
    /\ imageMode' = "faithful"
    /\ buildingType' = "fountain"
    /\ otherBuilding' = <<>>
    /\ autoChecked' = FALSE
    /\ autoDisabled' = FALSE
    /\ buttonDisabled' = TRUE
    /\ loadingActive' = FALSE
    /\ timer' = NoTimer
    /\ attempts' = <<>>
    /\ last' = NoAttempt
    /\ alertMsg' = <<>>

\* window.location.href = path: the page and all that lived in it are gone
PageLeft(path) ==
    /\ screen' = path
    /\ freeText' = <<>>
    /\ imageMode' = "faithful"
    /\ buildingType' = "fountain"
    /\ otherBuilding' = <<>>
    /\ autoChecked' = FALSE
    /\ autoDisabled' = FALSE
    /\ buttonDisabled' = TRUE
    /\ loadingActive' = FALSE
    /\ timer' = NoTimer
    /\ attempts' = <<>>
    /\ alertMsg' = <<>>

Init ==
    /\ calc = NoCalc
    /\ screen = "image-display"
    /\ freeText = <<>>
    /\ imageMode = "faithful"
    /\ buildingType = "fountain"
    /\ otherBuilding = <<>>
    /\ autoChecked = FALSE
    /\ autoDisabled = FALSE
    /\ buttonDisabled = TRUE
    /\ loadingActive = FALSE
    /\ timer = NoTimer
    /\ storage = EmptyStorage
    /\ attempts = <<>>
    /\ last = NoAttempt
    /\ alertMsg = <<>>
    /\ edits = 0
    /\ confirm = NoConfirm
    /\ server = NoServer

\* updateButtonState: the new value of button.disabled
updateButtonState(text) == Trim(text) = <<>>

\* one more input event of the user
Edit ==
    /\ screen = "image-display"
    /\ edits < MaxEdits
    /\ edits' = edits + 1

\* the 'input' listener of textarea#freeText
InputFreeText(t) ==
    /\ Edit
    /\ freeText' = t
    /\ buttonDisabled' = updateButtonState(t)
    /\ UNCHANGED <<calc, screen, imageMode, buildingType, otherBuilding, autoChecked,
                   autoDisabled, loadingActive, timer, storage, attempts, last,
                   alertMsg, confirm, server>>

\* a variant of the 'change' listener that disables the checkbox for creative
\* mode but leaves its check mark
ChangeImageModeKeepChecked(m) ==
    /\ screen = "image-display"
    /\ edits < MaxEdits
    /\ edits' = edits + 1
    /\ imageMode' = m
    /\ autoDisabled' = (m = "creative")
    /\ UNCHANGED <<calc, screen, freeText, buildingType, otherBuilding, autoChecked,
                   buttonDisabled, loadingActive, timer, storage, attempts, last,
                   alertMsg, confirm, server>>

\* updateAutoPromptState, the 'change' listener of select#imageMode
ChangeImageMode(m) ==
    /\ Edit
    /\ imageMode' = m
    /\ IF m = "creative"
       THEN autoDisabled' = TRUE /\ autoChecked' = FALSE
       ELSE autoDisabled' = FALSE /\ UNCHANGED autoChecked
    /\ UNCHANGED <<calc, screen, freeText, buildingType, otherBuilding, buttonDisabled,
                   loadingActive, timer, storage, attempts, last, alertMsg, confirm, server>>

\* a click on input#autoPromptCheckbox (a disabled checkbox takes no click)
ClickAutoPrompt ==
    /\ Edit
    /\ ~autoDisabled
    /\ autoChecked' = ~autoChecked
    /\ UNCHANGED <<calc, screen, freeText, imageMode, buildingType, otherBuilding,
                   autoDisabled, buttonDisabled, loadingActive, timer, storage,
                   attempts, last, alertMsg, confirm, server>>

\* updateOtherVisibility, the 'change' listener of select#buildingType
ChangeBuildingType(b) ==
    /\ Edit
    /\ buildingType' = b
    /\ otherBuilding' = IF b = "other" THEN otherBuilding ELSE <<>>
    /\ UNCHANGED <<calc, screen, freeText, imageMode, autoChecked, autoDisabled,
                   buttonDisabled, loadingActive, timer, storage, attempts, last,
                   alertMsg, confirm, server>>

\* typing into input#otherBuilding, shown only for building 'other'
InputOtherBuilding(t) ==
    /\ Edit
    /\ buildingType = "other"
    /\ otherBuilding' = t
    /\ UNCHANGED <<calc, screen, freeText, imageMode, buildingType, autoChecked,
                   autoDisabled, buttonDisabled, loadingActive, timer, storage,
                   attempts, last, alertMsg, confirm, server>>

-----------------------------------------------------------------------------
(* handleGenerate *)

\* the handle setInterval returns: one no live interval or call bears
FreshId ==
    LET used == timer.active \cup DOMAIN attempts
    IN  CHOOSE n \in 1 .. (Cardinality(used) + 1) :
            n \notin used /\ \A k \in 1 .. (n - 1) : k \in used

\* startElapsedTimer: setInterval hands out a new interval and
\* elapsedTimerInterval is overwritten
startElapsedTimer(tm, id) == [interval |-> id, active |-> tm.active \cup {id}]

\* stopElapsedTimer: clears the interval elapsedTimerInterval refers to
stopElapsedTimer(tm) ==
    IF tm.interval # 0
    THEN [interval |-> 0, active |-> tm.active \ {tm.interval}]
    ELSE tm

\* the image reference the vendor returns for a request
ImageUrlFor(body) == <<"https://vendor/image-for/">> \o body.prompt

\* every answer the client can see from fetch('/api/generate') or
\* fetch('/api/creative'): a JSON body, or a rejected fetch / unparseable body
ImageAnswers(body) ==
    {[success |-> TRUE, imageUrl |-> ImageUrlFor(body), error |-> <<>>],
     [success |-> TRUE, imageUrl |-> <<>>, error |-> <<>>],
     [success |-> FALSE, imageUrl |-> <<>>, error |-> <<"vendor error">>],
     [success |-> FALSE, imageUrl |-> <<>>, error |-> <<>>],
     [transport |-> "failed"]}

\* the locals of one call, read from the form at its start.  otherBuildingText
\* is the input's value as typed, translation the completion vendor's answer
\* and what the route made of it, fetched and sent the requests the call has
\* made, before is sessionStorage as the call found it.
NewAttempt(ref) ==
    [pc |-> "start",
     freeTextValue |-> Trim(freeText),
     imageMode |-> imageMode,
     isCreativeMode |-> IsCreativeMode(imageMode),
     buildingType |-> buildingType,
     otherBuildingText |-> otherBuilding,
     otherBuildingValue |-> Trim(otherBuilding),
     buildingTypeName |-> getBuildingTypeName(buildingType, Trim(otherBuilding)),
     referenceImagePath |-> ref,
     isAutoPromptEnabled |-> IsAutoPromptEnabled(imageMode, autoChecked),
     prompt |-> <<>>,
     translation |-> <<>>,
     fetched |-> <<>>,
     sent |-> <<>>,
     before |-> storage,
     error |-> <<>>]

\* from the generationData write to the fetch of the image collaborator
SendImageRequest(a, prompt) ==
    IF a.isCreativeMode
    THEN [a EXCEPT !.pc = "awaitImage", !.prompt = prompt,
                   !.fetched = Append(a.fetched, "/api/creative"),
                   !.sent = Append(a.sent, CreativeBody(a))]
    ELSE [a EXCEPT !.pc = "awaitImage", !.prompt = prompt,
                   !.fetched = Append(a.fetched, "/api/generate"),
                   !.sent = Append(a.sent, GenerateBody(a, prompt))]

\* the calls in flight without call i / with call i holding a
Without(i) == [j \in DOMAIN attempts \ {i} |-> attempts[j]]
With(i, a) == [j \in DOMAIN attempts \cup {i} |-> IF j = i THEN a ELSE attempts[j]]

\* the catch block, entered by call i whose locals are a
CatchOf(i, a, message) ==
    /\ attempts' = Without(i)
    /\ last' = [a EXCEPT !.pc = "failed", !.error = message]
    /\ timer' = stopElapsedTimer(timer)
    /\ loadingActive' = FALSE
    /\ buttonDisabled' = FALSE
    /\ alertMsg' = <<"An error occurred during image generation:\n">> \o message
    /\ UNCHANGED <<calc, screen, freeText, imageMode, buildingType, otherBuilding,
                   autoChecked, autoDisabled, storage, edits, confirm, server>>

Catch(i, message) == CatchOf(i, attempts[i], message)

\* the 'submit' listener of the form: handleGenerate up to its first await.
\* A disabled submit button submits nothing.
HandleGenerate ==
    /\ screen = "image-display"
    /\ ~buttonDisabled
    /\ \E ref \in (IF IsCreativeMode(imageMode) THEN {<<>>}
                   ELSE ReferenceChoices(buildingType)) :
          LET a == NewAttempt(ref)
              prompt == buildPromptWithBuilding(a.freeTextValue,
                                                InstallInstruction(a.buildingTypeName))
          IN  IF a.isAutoPromptEnabled
              THEN /\ attempts' = With(FreshId,
                          [a EXCEPT !.pc = "awaitTranslate",
                                    !.fetched = <<"/api/translate-prompt">>,
                                    !.sent = <<[text |-> a.freeTextValue]>>])
                   /\ UNCHANGED storage
              ELSE /\ attempts' = With(FreshId, SendImageRequest(a, prompt))
                   /\ storage' = [storage EXCEPT !.generationData =
                                                    Some(GenerationData(a, prompt))]
    /\ buttonDisabled' = TRUE
    /\ loadingActive' = TRUE
    /\ timer' = startElapsedTimer(timer, FreshId)
    /\ UNCHANGED <<calc, screen, freeText, imageMode, buildingType, otherBuilding,
                   autoChecked, autoDisabled, last, alertMsg, edits, confirm, server>>

\* the route answers with what the vendor gave it, or the fetch is rejected;
\* generateAutoPrompt returns or throws, and handleGenerate goes on
TranslateResponds(i) ==
    /\ screen = "image-display"
    /\ i \in DOMAIN attempts
    /\ attempts[i].pc = "awaitTranslate"
    /\ \/ Catch(i, <<"fetch failed">>)
       \/ \E hasKey \in BOOLEAN :
          \E vendor \in (IF hasKey THEN VendorCompletions ELSE {NotCalled}) :
             LET result == translateApi(attempts[i].sent[1].text, hasKey, vendor)
                 got == generateAutoPrompt(result)
                 a == [attempts[i] EXCEPT !.translation =
                           <<[hasKey |-> hasKey, vendor |-> vendor,
                              success |-> result.success, prompt |-> got.prompt]>>]
                 prompt == AutoPromptWrap(got.prompt, a.buildingTypeName)
             IN  IF got.thrown
                 THEN CatchOf(i, a, got.message)
                 ELSE /\ attempts' = With(i, SendImageRequest(a, prompt))
                      /\ storage' = [storage EXCEPT !.generationData =
                                                       Some(GenerationData(a, prompt))]
                      /\ UNCHANGED <<calc, screen, freeText, imageMode, buildingType,
                                     otherBuilding, autoChecked, autoDisabled,
                                     buttonDisabled, loadingActive, timer, last,
                                     alertMsg, edits, confirm, server>>

\* a test of the answer that looks at its success flag alone
ImageSucceededByFlag(r) == r.success

\* the test on the parsed answer: result.success && result.imageUrl
ImageSucceeded(r) == r.success /\ r.imageUrl # <<>>

\* the image collaborator answers, and handleGenerate ends.  On success the
\* page is left for /result: its DOM, timers and pending calls are gone.
ImageResponds(i) ==
    /\ screen = "image-display"
    /\ i \in DOMAIN attempts
    /\ attempts[i].pc = "awaitImage"
    /\ \E r \in ImageAnswers(attempts[i].sent[Len(attempts[i].sent)]) :
          IF "transport" \in DOMAIN r
          THEN Catch(i, <<"fetch failed">>)
          ELSE IF ImageSucceeded(r)
          THEN /\ storage' = [storage EXCEPT !.generatedImageUrl = Some(r.imageUrl)]
               /\ PageLeft("result")
               /\ last' = [attempts[i] EXCEPT !.pc = "succeeded"]
               /\ UNCHANGED <<calc, edits, confirm, server>>
          ELSE Catch(i, IF r.error = <<>>
                        THEN <<"image generation failed">> ELSE r.error)

-----------------------------------------------------------------------------
(* The result and top screens *)

\* the back button of the result screen
BackButton ==
    /\ screen = "result"
    /\ storage' = [storage EXCEPT !.generationData = None, !.generatedImageUrl = None]
    /\ screen' = "top"
    /\ UNCHANGED <<calc, freeText, imageMode, buildingType, otherBuilding, autoChecked,
                   autoDisabled, buttonDisabled, loadingActive, timer, attempts, last,
                   alertMsg, edits, confirm, server>>

\* the retry button of the result screen
RetryButton ==
    /\ screen = "result"
    /\ storage' = [storage EXCEPT !.generatedImageUrl = None]
    /\ PageLoad
    /\ UNCHANGED <<calc, edits, confirm, server>>

\* GET /result loaded from another screen (history or address bar); the
\* page shows what storage holds and sets up its buttons
VisitResult ==
    /\ screen # "result"
    /\ PageLeft("result")
    /\ confirm' = NoConfirm
    /\ UNCHANGED <<calc, storage, last, edits, server>>

\* the start button of the top screen
StartButton ==
    /\ screen = "top"
    /\ PageLoad
    /\ UNCHANGED <<calc, storage, edits, confirm, server>>

-----------------------------------------------------------------------------
(* The confirm and complete screens *)

\* what the user types into input#nickname
NicknameTexts == {<<>>, <<" ">>, <<"n">>}

\* GET /confirm and its DOMContentLoaded handler; the result screen's next
\* button leads here.  Without a generated image the page alerts and goes
\* back to /image-display.
OpenConfirm ==
    /\ screen = "result"
    /\ IF storage.generatedImageUrl = None
       THEN /\ PageLoad
            /\ UNCHANGED confirm
       ELSE /\ screen' = "confirm"
            /\ confirm' = NoConfirm
            /\ UNCHANGED <<freeText, imageMode, buildingType, otherBuilding, autoChecked,
                           autoDisabled, buttonDisabled, loadingActive, timer, attempts,
                           last, alertMsg>>
    /\ UNCHANGED <<calc, storage, edits, server>>

\* typing into input#nickname
InputNickname(t) ==
    /\ screen = "confirm"
    /\ edits < MaxEdits
    /\ edits' = edits + 1
    /\ confirm' = [confirm EXCEPT !.nickname = t]
    /\ UNCHANGED <<calc, screen, freeText, imageMode, buildingType, otherBuilding,
                   autoChecked, autoDisabled, buttonDisabled, loadingActive, timer,
                   storage, attempts, last, alertMsg, server>>

BUILDING_TYPE_NAMES_JA ==
    [b \in BuildingTypes |-> <<"BUILDING_TYPE_NAMES_JA", b>>]

\* x || fallback on strings
OrElse(x, fallback) == IF x # <<>> THEN x ELSE fallback

\* options.<key> || '' for a key that holds a string, '' when it is missing
StringOption(options, key) == IF key \in DOMAIN options THEN options[key] ELSE <<>>

\* the building shown for the options of a generation
BuildingNameOf(options) ==
    LET bType == StringOption(options, "buildingType")
    IN  IF bType = <<"other">>
        THEN OrElse(StringOption(options, "buildingPrompt"), <<"other (ja)">>)
        ELSE IF Len(bType) = 1 /\ bType[1] \in BuildingTypes
        THEN BUILDING_TYPE_NAMES_JA[bType[1]]
        ELSE OrElse(bType, <<"-">>)

\* emailData of handleSaveAndNext, from the trimmed nickname, the parsed
\* generationData (None when missing) and generatedImageUrl (None when missing)
EmailData(nick, generationData, generatedImageUrl) ==
    LET options == IF generationData # None /\ "options" \in DOMAIN generationData[1]
                   THEN generationData[1].options
                   ELSE [none |-> <<>>]
    IN  [nickname |-> OrElse(nick, <<"(not entered)">>),
         imageMode |-> OrElse(StringOption(options, "imageModeName"),
                              IF "imageMode" \in DOMAIN options
                              THEN <<options.imageMode>> ELSE <<"-">>),
         building |-> BuildingNameOf(options),
         freeText |-> OrElse(StringOption(options, "freeText"), <<"(not entered)">>),
         autoPrompt |-> IF "autoPrompt" \in DOMAIN options /\ options.autoPrompt
                        THEN "used" ELSE "unused",
         imageUrl |-> generatedImageUrl]

\* the click listener of button#saveAndNextButton: handleSaveAndNext up to its
\* await.  The page holds the generationData it parsed when it loaded, which
\* is what sessionStorage still holds.
SaveAndNext ==
    /\ screen = "confirm"
    /\ confirm' = [confirm EXCEPT !.mails = @ \cup
                      {[nickname |-> Trim(confirm.nickname),
                        emailData |-> EmailData(Trim(confirm.nickname),
                                                storage.generationData,
                                                storage.generatedImageUrl)]}]
    /\ loadingActive' = TRUE
    /\ UNCHANGED <<calc, screen, freeText, imageMode, buildingType, otherBuilding,
                   autoChecked, autoDisabled, buttonDisabled, timer, storage, attempts,
                   last, alertMsg, edits, server>>

\* what the client can see of fetch('/api/send-email') and response.json()
EmailOutcomes == {"success", "errorBody", "throws"}

\* a variant of handleSaveAndNext whose catch block stays on the page
EmailRespondsStayOnThrow(c) ==
    /\ screen = "confirm"
    /\ c \in confirm.mails
    /\ \E outcome \in EmailOutcomes :
          IF outcome = "throws"
          THEN /\ confirm' = [confirm EXCEPT !.mails = @ \ {c}]
               /\ loadingActive' = FALSE
               /\ UNCHANGED <<screen, storage>>
          ELSE /\ storage' = [storage EXCEPT !.nickname = Some(c.nickname)]
               /\ screen' = "complete"
               /\ confirm' = [NoConfirm EXCEPT !.settled = outcome]
               /\ loadingActive' = FALSE
    /\ UNCHANGED <<calc, freeText, imageMode, buildingType, otherBuilding, autoChecked,
                   autoDisabled, buttonDisabled, timer, attempts, last, alertMsg, edits,
                   server>>

\* the send-email call of send c settles and handleSaveAndNext goes on: the
\* nickname is stored and the page is left for /complete, in the try block
\* and in the catch block alike
EmailResponds(c) ==
    /\ screen = "confirm"
    /\ c \in confirm.mails
    /\ \E outcome \in EmailOutcomes :
          /\ storage' = [storage EXCEPT !.nickname = Some(c.nickname)]
          /\ screen' = "complete"
          /\ confirm' = [NoConfirm EXCEPT !.settled = outcome]
          /\ loadingActive' = FALSE
    /\ UNCHANGED <<calc, freeText, imageMode, buildingType, otherBuilding, autoChecked,
                   autoDisabled, buttonDisabled, timer, attempts, last, alertMsg, edits,
                   server>>

\* the click listener of button#homeButton on the complete screen
HomeButton ==
    /\ screen = "complete"
    /\ storage' = EmptyStorage
    /\ screen' = "top"
    /\ confirm' = NoConfirm
    /\ UNCHANGED <<calc, freeText, imageMode, buildingType, otherBuilding, autoChecked,
                   autoDisabled, buttonDisabled, loadingActive, timer, attempts, last,
                   alertMsg, edits, server>>

Next ==
    \/ OpenConfirm
    \/ \E t \in NicknameTexts : InputNickname(t)
    \/ SaveAndNext
    \/ \E c \in confirm.mails : EmailResponds(c)
    \/ HomeButton
    \/ \E t \in FormTexts : InputFreeText(t)
    \/ \E m \in ImageModes : ChangeImageMode(m)
    \/ ClickAutoPrompt
    \/ \E b \in BuildingTypes : ChangeBuildingType(b)
    \/ \E t \in OtherTexts : InputOtherBuilding(t)
    \/ HandleGenerate
    \/ \E i \in DOMAIN attempts : TranslateResponds(i)
    \/ \E i \in DOMAIN attempts : ImageResponds(i)
    \/ BackButton
    \/ RetryButton
    \/ VisitResult
    \/ StartButton

Spec == Init /\ [][Next]_vars

-----------------------------------------------------------------------------
(* The confirm screen on its own *)

\* what a finished generation leaves in sessionStorage
FinishedGenerations ==
    {[generationData |->
          Some(GenerationData([imageMode |-> m, isCreativeMode |-> IsCreativeMode(m),
                               freeTextValue |-> t,
                               isAutoPromptEnabled |-> IsAutoPromptEnabled(m, auto)],
                              <<"prompt">>)),
      generatedImageUrl |-> Some(<<"https://vendor/image">>),
      nickname |-> None] :
        m \in ImageModes, t \in {<<>>, <<"a">>}, auto \in BOOLEAN}

\* the confirm page just loaded after a finished generation
InitConfirm ==
    /\ calc = NoCalc
    /\ screen = "confirm"
    /\ freeText = <<>>
    /\ imageMode = "faithful"
    /\ buildingType = "fountain"
    /\ otherBuilding = <<>>
    /\ autoChecked = FALSE
    /\ autoDisabled = FALSE
    /\ buttonDisabled = TRUE
    /\ loadingActive = FALSE
    /\ timer = NoTimer
    /\ storage \in FinishedGenerations
    /\ attempts = <<>>
    /\ last = NoAttempt
    /\ alertMsg = <<>>
    /\ edits = 0
    /\ confirm = NoConfirm
    /\ server = NoServer

NextConfirm ==
    \/ \E t \in NicknameTexts : InputNickname(t)
    \/ SaveAndNext
    \/ \E c \in confirm.mails : EmailResponds(c)
    \/ HomeButton

\* every fetch settles: it resolves or it rejects
SpecConfirm ==
    InitConfirm /\ [][NextConfirm]_vars
        /\ WF_vars(\E c \in confirm.mails : EmailResponds(c))

-----------------------------------------------------------------------------
(* handleGenerate on every form it can be handed *)

\* free texts: plain, padded with white space, and blank (the catch block
\* enables the button whatever the textarea holds)
AttemptTexts == {<<"a">>, <<" ", "a", "\n">>, <<" ">>}

\* other-building texts: none, blank, plain, padded, and texts that spell
\* the English name of a listed building
AttemptOtherTexts ==
    {<<>>, <<" ", " ">>, <<"x">>, <<" ", "x">>, <<"x", " ", " ">>,
     <<"fountain">>, <<"Stylish cafe stand">>}

\* the form with the submit button enabled and its controls at any value;
\* the checkbox may be checked in creative mode, as handleGenerate does not
\* rely on updateAutoPromptState having run
InitAttempt ==
    /\ calc = NoCalc
    /\ screen = "image-display"
    /\ freeText \in AttemptTexts
    /\ imageMode \in ImageModes
    /\ buildingType \in BuildingTypes
    /\ otherBuilding \in (IF buildingType = "other" THEN AttemptOtherTexts ELSE {<<>>})
    /\ autoChecked \in BOOLEAN
    /\ autoDisabled = (imageMode = "creative")
    /\ buttonDisabled = FALSE
    /\ loadingActive = FALSE
    /\ timer = NoTimer
    /\ storage = EmptyStorage
    /\ attempts = <<>>
    /\ last = NoAttempt
    /\ alertMsg = <<>>
    /\ edits = 0
    /\ confirm = NoConfirm
    /\ server = NoServer

NextAttempt ==
    \/ HandleGenerate
    \/ \E i \in DOMAIN attempts : TranslateResponds(i)
    \/ \E i \in DOMAIN attempts : ImageResponds(i)

SpecAttempt == InitAttempt /\ [][NextAttempt]_vars

\* the calls of handleGenerate the state knows: those in flight and the one
\* that ended last
AllAttempts ==
    {attempts[i] : i \in DOMAIN attempts} \cup (IF last.pc # "none" THEN {last} ELSE {})

ImageEndpoints == {"/api/generate", "/api/creative"}

\* the image requests a call has made: endpoint and body
ImageRequests(a) ==
    {[endpoint |-> a.fetched[k], body |-> a.sent[k]] :
        k \in {n \in 1 .. Len(a.fetched) : a.fetched[n] \in ImageEndpoints}}

-----------------------------------------------------------------------------
(* Parameter selection, evaluated on its own *)

StyleKeys == Styles \cup {UnknownKey}
LightingKeys == Lightings \cup {UnknownKey}

\* the records of PARAM_TABLE, and records with steps near the floor of 30
\* and guidance near the caps of 6.8 and 8.2
TableParams == {PARAM_TABLE[s][l] : s \in Styles, l \in Lightings}
ProbeParams == {Param(50, sp, g) : sp \in {29, 30, 31, 32, 33}, g \in {66, 68, 70, 82, 84}}

\* applySafetyTweaks applied to a record, and again to its result
TweakTwice(style, lighting, p) ==
    /\ calc' = [op |-> "applySafetyTweaks", style |-> style, lighting |-> lighting,
                p |-> p,
                once |-> applySafetyTweaks(style, lighting, p),
                twice |-> applySafetyTweaks(style, lighting,
                                            applySafetyTweaks(style, lighting, p))]
    /\ UNCHANGED <<screen, freeText, imageMode, buildingType, otherBuilding, autoChecked,
                   autoDisabled, buttonDisabled, loadingActive, timer, storage,
                   attempts, last, alertMsg, edits, confirm, server>>

\* the parameter selection of the style x lighting handleGenerate
SelectParams(style, lighting) ==
    /\ calc' = [op |-> "selectParams", style |-> style, lighting |-> lighting,
                baseParams |-> getFalParams(style, lighting),
                params |-> applySafetyTweaks(style, lighting,
                                             getFalParams(style, lighting))]
    /\ UNCHANGED <<screen, freeText, imageMode, buildingType, otherBuilding, autoChecked,
                   autoDisabled, buttonDisabled, loadingActive, timer, storage,
                   attempts, last, alertMsg, edits, confirm, server>>

\* getFalParams on its own, for keys of the table, a key it does not know
\* and a key objects inherit
LookupKeys(keys) == keys \cup {UnknownKey, InheritedKey}

LookupParams(style, lighting) ==
    /\ calc' = [op |-> "getFalParams", style |-> style, lighting |-> lighting,
                out |-> getFalParams(style, lighting)]
    /\ UNCHANGED <<screen, freeText, imageMode, buildingType, otherBuilding, autoChecked,
                   autoDisabled, buttonDisabled, loadingActive, timer, storage,
                   attempts, last, alertMsg, edits, confirm, server>>

NextTweaks ==
    \/ \E style \in StyleKeys, lighting \in LightingKeys,
          p \in TableParams \cup ProbeParams : TweakTwice(style, lighting, p)
    \/ \E style \in StyleKeys, lighting \in LightingKeys : SelectParams(style, lighting)
    \/ \E style \in LookupKeys(Styles), lighting \in LookupKeys(Lightings) :
          LookupParams(style, lighting)

SpecTweaks == Init /\ [][NextTweaks]_vars

\* C1 as stated: for every style, every lighting and every record p of
\* PARAM_TABLE, applying applySafetyTweaks twice gives the same strength,
\* steps and guidance as applying it once.
C1_TweaksIdempotent ==
    (calc.op = "applySafetyTweaks" /\ calc.p \in TableParams)
        => calc.twice = calc.once

\* C1, amended: a second application never changes strength or guidance, and
\* leaves steps alone for every lighting but dramatic; for dramatic it takes
\* 2 more steps off, down to the floor of 30, so the two results agree only
\* when the first already stands at 30 -- which no record of PARAM_TABLE does.
C1_TweaksIdempotentButDramaticSteps ==
    calc.op = "applySafetyTweaks" =>
        /\ calc.twice.strength = calc.once.strength
        /\ calc.twice.guidance = calc.once.guidance
        /\ calc.lighting # "dramatic" => calc.twice = calc.once
        /\ calc.lighting = "dramatic" =>
              /\ calc.twice.steps = Max(30, calc.once.steps - 2)
              /\ (calc.twice = calc.once) <=> (calc.once.steps = 30)
              /\ calc.p \in TableParams => calc.twice.steps = calc.once.steps - 2

\* a table record under dramatic lighting, applied twice: 2 steps less again
C1_Witness ==
    /\ calc.op = "applySafetyTweaks"
    /\ calc.p \in TableParams
    /\ calc.lighting = "dramatic"
    /\ calc.once.steps = calc.p.steps - 2
    /\ calc.twice.steps = calc.p.steps - 4

-----------------------------------------------------------------------------
(* The prompt builders, evaluated on their own *)

\* the longest free text tried, over the alphabet of a letter and the two
\* characters of the separator
MaxTextLen == 2
PromptTexts == StringsUpTo({"a", ",", "\n"}, MaxTextLen)

\* building names: none, a table name, a typed name, a typed name that
\* itself holds two separators
PromptNames == {<<>>, <<"fountain">>, <<"x">>, <<"x", ",", "\n", ",", "\n", "y">>}

\* two separators in a row
SEP2 == SEP \o SEP

BeginsWith(s, t) == Len(s) >= Len(t) /\ SubSeq(s, 1, Len(t)) = t

PromptCalc(op, text, instruction, out) ==
    /\ calc' = [op |-> op, text |-> text, instruction |-> instruction, out |-> out]
    /\ UNCHANGED <<screen, freeText, imageMode, buildingType, otherBuilding, autoChecked,
                   autoDisabled, buttonDisabled, loadingActive, timer, storage,
                   attempts, last, alertMsg, edits, confirm, server>>

CallBuildPromptStyled(text, style, lighting) ==
    PromptCalc("buildPromptStyled", text, <<>>, buildPromptStyled(text, style, lighting))

CallBuildPromptKeywords(text, style, lighting) ==
    PromptCalc("buildPromptKeywords", text, <<>>,
               buildPromptKeywords(text, <<style>>, <<lighting>>))

CallBuildPromptInpaint(text) ==
    PromptCalc("buildPromptInpaint", text, <<>>, buildPromptInpaint(text))

CallBuildPrompt(text) ==
    PromptCalc("buildPrompt", text, <<>>, buildPrompt(text))

CallBuildPromptWithBuilding(text, name) ==
    PromptCalc("buildPromptWithBuilding", text, InstallInstruction(name),
               buildPromptWithBuilding(text, InstallInstruction(name)))

CallAutoPromptWrap(generated, name) ==
    PromptCalc("AutoPromptWrap", generated, InstallInstruction(name),
               AutoPromptWrap(generated, name))

NextPrompt ==
    \/ \E t \in PromptTexts, st \in StyleKeys, l \in LightingKeys :
          CallBuildPromptStyled(t, st, l)
    \/ \E t \in PromptTexts, st \in StyleKeys, l \in LightingKeys :
          CallBuildPromptKeywords(t, st, l)
    \/ \E t \in PromptTexts : CallBuildPromptInpaint(t)
    \/ \E t \in PromptTexts : CallBuildPrompt(t)
    \/ \E t \in PromptTexts, n \in PromptNames : CallBuildPromptWithBuilding(t, n)
    \/ \E t \in PromptTexts, n \in PromptNames : CallAutoPromptWrap(t, n)

SpecPrompt == Init /\ [][NextPrompt]_vars

PromptOps == {"buildPromptStyled", "buildPromptKeywords", "buildPromptInpaint",
              "buildPrompt", "buildPromptWithBuilding", "AutoPromptWrap"}
\* the builders that join with ',\n' and keep their blank slot
BlankSlotOps == {"buildPromptStyled", "buildPromptInpaint", "buildPrompt"}
\* the builders that filter(Boolean) before joining
FilteredOps == {"buildPromptWithBuilding", "AutoPromptWrap"}

\* C4 as stated: whatever the builder, a prompt built from a free text and a
\* building instruction that hold no separator of their own never contains
\* two consecutive ',\n' separators.
C4_NoDoubleSeparator ==
    (calc.op \in PromptOps /\ ~Contains(calc.text, SEP)
                           /\ ~Contains(calc.instruction, SEP))
        => ~Contains(calc.out, SEP2)

\* C4, amended: the builders that filter (buildPromptWithBuilding and the
\* auto-prompt wrapping) drop their empty fragments, and their prompt holds
\* two consecutive separators only where the text handed in brings them: it
\* begins with a separator or holds two in a row, or the instruction holds two
\* in a row.  The ',\n' variants of buildPrompt keep a blank slot before the
\* free text, so their prompt always holds two consecutive separators.  The
\* keyword variant joins with ', ' and drops nothing.
C4_DoubleSeparatorOnlyWhereKept ==
    /\ calc.op \in FilteredOps =>
          (Contains(calc.out, SEP2)
              <=> \/ BeginsWith(calc.text, SEP)
                  \/ Contains(calc.text, SEP2)
                  \/ Contains(calc.instruction, SEP2))
    /\ calc.op \in BlankSlotOps =>
          /\ Contains(calc.out, SEP2)
          /\ Contains(calc.out, SEP2 \o calc.text)
    /\ calc.op = "buildPromptKeywords" =>
          (Contains(calc.out, SEP2) <=> Contains(calc.text, SEP2))

\* buildPromptWithBuilding with no building instruction and a plain free
\* text: the two empty fragments are dropped
C4_Witness ==
    /\ calc.op = "buildPromptWithBuilding"
    /\ calc.instruction = <<>>
    /\ calc.text = <<"a">>
    /\ ~Contains(calc.out, SEP2)
    /\ Contains(calc.out, VISIBILITY_TAG \o SEP \o <<"a">>)

-----------------------------------------------------------------------------
(* Claims about one call of handleGenerate *)

CreativeRequests(a) == {q \in ImageRequests(a) : q.endpoint = "/api/creative"}
InpaintRequests(a) == {q \in ImageRequests(a) : q.endpoint = "/api/generate"}

\* the building selections a second call with the same free text could make
BuildingNames ==
    {getBuildingTypeName(b, Trim(o)) : b \in BuildingTypes, o \in AttemptOtherTexts}

\* C5 as stated: the prompt sent to /api/creative is the fixed template
\* followed by 'User request: <free text>', and a call with the same free
\* text and any other building selection sends the identical prompt.
C5_CreativePromptSameForEveryBuilding ==
    \A a \in AllAttempts : \A q \in CreativeRequests(a) :
        /\ q.body.prompt = <<"CreativeHead", "CreativeTail", "User request: ">>
                                \o a.freeTextValue
        /\ \A name \in BuildingNames :
              CreativePrompt(a.freeTextValue, name) = q.body.prompt

\* C5, amended: the prompt sent to /api/creative begins with the fixed
\* template and ends with 'User request: <trimmed free text>', and between
\* the two parts of the template it carries the line
\* '\nInstallation type: <building name>' exactly when the building name is
\* not empty; a call with the same free text sends the identical prompt
\* exactly when its building name is the same.
C5_CreativePromptNamesBuilding ==
    \A a \in AllAttempts : \A q \in CreativeRequests(a) :
        LET line == <<"\nInstallation type: ">> \o a.buildingTypeName
            n == Len(q.body.prompt)
            m == Len(a.freeTextValue)
        IN  /\ a.isCreativeMode
            /\ q.body = [prompt |-> q.body.prompt]
            /\ Head(q.body.prompt) = "CreativeHead"
            /\ SubSeq(q.body.prompt, n - m - 1, n)
                  = <<"CreativeTail", "User request: ">> \o a.freeTextValue
            /\ Contains(q.body.prompt, <<"\nInstallation type: ">>)
                  <=> a.buildingTypeName # <<>>
            /\ a.buildingTypeName # <<>> =>
                  q.body.prompt = <<"CreativeHead">> \o line
                        \o <<"CreativeTail", "User request: ">> \o a.freeTextValue
            /\ \A name \in BuildingNames :
                  (CreativePrompt(a.freeTextValue, name) = q.body.prompt)
                      <=> (name = a.buildingTypeName)

\* a creative call for a listed building has sent its prompt, which names it
C5_Witness ==
    \E i \in DOMAIN attempts :
        /\ attempts[i].imageMode = "creative"
        /\ attempts[i].buildingType = "merry-go-round"
        /\ attempts[i].pc = "awaitImage"
        /\ \E q \in CreativeRequests(attempts[i]) :
              Contains(q.body.prompt, <<"\nInstallation type: ", "merry-go-round">>)

\* the templated instruction of a listed building
TemplatedInstruction(b) == InstallInstruction(BUILDING_TYPE_NAMES[b])

VendorFailed(v) ==
    \/ v.kind # "ok"
    \/ v.content = None
    \/ Trim(v.content[1]) = <<>>

\* C7: when auto-prompt is enabled and the completion vendor errors or
\* returns an empty or missing completion, the call has ended in the catch
\* block with the route's error shown in the alert, it holds no prompt (none
\* was substituted), it has fetched /api/translate-prompt and nothing else,
\* and, until the next call starts, sessionStorage is as the call found it,
\* the loading overlay is hidden and the submit button is enabled.
C7_FailedCompletionAborts ==
    \A a \in AllAttempts :
        (a.translation # <<>> /\ VendorFailed(a.translation[1].vendor)) =>
            /\ a.isAutoPromptEnabled
            /\ ~a.translation[1].success
            /\ a.pc = "failed"
            /\ a = last
            /\ a.error # <<>>
            /\ alertMsg = <<"An error occurred during image generation:\n">> \o a.error
            /\ a.prompt = <<>>
            /\ a.fetched = <<"/api/translate-prompt">>
            /\ ImageRequests(a) = {}
            /\ screen = "image-display"
            /\ attempts = <<>> =>
                  /\ storage = a.before
                  /\ ~loadingActive
                  /\ ~buttonDisabled

\* an auto-prompt call ended on a 2xx completion that was blank, with the key set
C7_Witness ==
    /\ last.pc = "failed"
    /\ last.translation # <<>>
    /\ last.translation[1].hasKey
    /\ last.translation[1].vendor = [kind |-> "ok", content |-> Some(<<" ">>)]
    /\ last.error = <<"prompt generation failed">>
    /\ last.fetched = <<"/api/translate-prompt">>
    /\ attempts = <<>>

\* the fragments of the literal-mode scaffold, in their order
Scaffold(instruction) ==
    FilterBoolean(<<SCENE_BASE, MODIFICATION_INSTRUCTION, instruction, STYLE_TAG,
                    LIGHTING_TAG, COMPOSITION_TAG, VISIBILITY_TAG>>)

\* C8: in auto-prompt mode the prompt sent to /api/generate equals
\* buildPromptWithBuilding(m, b) for the model output m the route returned and
\* the building instruction b of the call: it is the scaffold's fragments (scene
\* base, modification instruction, building instruction when there is a
\* building name, style, lighting, composition and visibility tags) joined in
\* that order, followed by m as its last fragment.
C8_AutoPromptIsLiteralBuilderOnModelOutput ==
    \A a \in AllAttempts :
        (a.translation # <<>> /\ a.translation[1].success) =>
            LET m == a.translation[1].prompt
                b == InstallInstruction(a.buildingTypeName)
                parts == Scaffold(b)
            IN  /\ a.isAutoPromptEnabled
                /\ m # <<>>
                /\ a.prompt = buildPromptWithBuilding(m, b)
                /\ a.fetched = <<"/api/translate-prompt", "/api/generate">>
                /\ a.sent[2].prompt = a.prompt
                /\ a.prompt = Join(parts, SEP) \o SEP \o m
                /\ \A k \in 1 .. Len(parts) :
                      /\ Contains(a.prompt, parts[k])
                      /\ IndexOf(a.prompt, parts[k]) + Len(parts[k])
                            <= Len(a.prompt) - Len(m)
                      /\ k > 1 => IndexOf(a.prompt, parts[k - 1])
                                     < IndexOf(a.prompt, parts[k])
                /\ a.buildingTypeName # <<>> => Len(parts) = 7
                /\ a.buildingTypeName = <<>> => Len(parts) = 6

\* an auto-prompt call for the cafe stand has wrapped a two-word model output
C8_Witness ==
    \E i \in DOMAIN attempts :
        /\ attempts[i].pc = "awaitImage"
        /\ attempts[i].isAutoPromptEnabled
        /\ attempts[i].buildingType = "cafe-stand"
        /\ attempts[i].translation[1].prompt = <<"m", " ", "n">>
        /\ attempts[i].sent[2].prompt
              = buildPromptWithBuilding(<<"m", " ", "n">>,
                                        InstallInstruction(<<"Stylish cafe stand">>))

\* how many image requests a call has made
ImageRequestCount(a) ==
    Cardinality({n \in 1 .. Len(a.fetched) : a.fetched[n] \in ImageEndpoints})

\* C9 as stated: a call makes at most one image request; it goes to
\* /api/creative with a body of the prompt alone exactly when the selected
\* mode is creative or image-centered, and to /api/generate with images,
\* mask and the three parameters for every other mode.
C9_CreativeEndpointForImageCenteredAndCreative ==
    \A a \in AllAttempts :
        /\ ImageRequestCount(a) <= 1
        /\ \A q \in ImageRequests(a) :
              IF a.imageMode \in {"creative", "image-centered"}
              THEN /\ q.endpoint = "/api/creative"
                   /\ DOMAIN q.body = {"prompt"}
              ELSE /\ q.endpoint = "/api/generate"
                   /\ {"imageData", "maskData", "strength", "steps", "guidance"}
                          \subseteq DOMAIN q.body

\* C10: in a call whose mode is creative, /api/translate-prompt is never
\* fetched and the call's auto-prompt flag is false, whatever the checkbox
\* says; the generationData it writes before its image request records
\* autoPrompt false.
C10_CreativeNeverTranslates ==
    /\ \A a \in AllAttempts :
          a.imageMode = "creative" =>
              /\ ~a.isAutoPromptEnabled
              /\ a.translation = <<>>
              /\ \A n \in 1 .. Len(a.fetched) : a.fetched[n] = "/api/creative"
    /\ \A i \in DOMAIN attempts :
          (attempts[i].imageMode = "creative" /\ attempts[i].pc = "awaitImage") =>
              /\ storage.generationData # None
              /\ storage.generationData[1].options.autoPrompt = FALSE
              /\ storage.generationData[1].options.imageMode = "creative"

\* a creative call started with the checkbox checked has sent its image request
C10_Witness ==
    /\ autoChecked
    /\ imageMode = "creative"
    /\ \E i \in DOMAIN attempts :
          /\ attempts[i].imageMode = "creative"
          /\ attempts[i].pc = "awaitImage"
          /\ attempts[i].fetched = <<"/api/creative">>

-----------------------------------------------------------------------------
(* Claims about the page *)

\* C2 as stated: while a call of handleGenerate is in flight the submit
\* button is disabled, whatever the user does in the meantime, and no second
\* call is in flight beside it.
C2_SubmitDisabledWhileInFlight ==
    /\ attempts # <<>> => buttonDisabled
    /\ Cardinality(DOMAIN attempts) <= 1

\* C3 as stated: when a call of handleGenerate ends in failure,
\* sessionStorage holds what it held when the call started and the submit
\* button is enabled.
C3_FailureLeavesStorageIntact ==
    [][\A i \in DOMAIN attempts :
          (i \notin DOMAIN attempts' /\ last'.pc = "failed"
                                     /\ screen' = "image-display")
              => (storage' = attempts[i].before /\ ~buttonDisabled')]_vars

\* C11: on the image-display page, after its initialisation and after any
\* mode changes and checkbox clicks, the auto-prompt checkbox is unchecked and
\* disabled whenever the selected mode is creative, and enabled whenever the
\* mode is not creative.
C11_CheckboxFollowsMode ==
    screen = "image-display" =>
        /\ imageMode = "creative" => (~autoChecked /\ autoDisabled)
        /\ imageMode # "creative" => ~autoDisabled

\* creative mode selected after two input events on the page
C11_Witness ==
    /\ screen = "image-display"
    /\ imageMode = "creative"
    /\ edits = 2
    /\ autoDisabled
    /\ ~autoChecked

-----------------------------------------------------------------------------
(* POST /api/send-email *)

\* request bodies: text that is no JSON, the JSON null, and objects with and
\* without an image URL
EmailBodies ==
    {[kind |-> "malformed"], [kind |-> "null"]}
        \cup {[kind |-> "object", nickname |-> n, imageUrl |-> u] :
                n \in {<<"n">>, <<"(not entered)">>},
                u \in {None, Some(<<"https://vendor/image">>)}}

\* how fetching the attachment can end, and what the mail vendor can answer:
\* a 2xx with a body that parses or not, another status with a body that
\* parses or not, or a rejected fetch
ImageFetches == {"ok", "notOk", "throws"}
MailVendorAnswers == {"ok", "okUnparseable", "notOk", "notOkUnparseable", "throws"}

\* fetchImageAsBase64: the attachment, none when the fetch failed
fetchImageAsBase64(imageUrl, imageFetch) ==
    IF imageFetch = "ok"
    THEN Some([filename |-> <<"yumemachi_canvas_.jpg">>, content |-> <<"base64 of ">> \o imageUrl])
    ELSE None

\* a variant of the route that reports failures as failures
emailApiHonest(body, hasKey, imageFetch, vendor) ==
    IF body.kind # "object"
    THEN [status |-> 400, success |-> FALSE, message |-> <<"bad request">>, debug |-> None]
    ELSE IF ~hasKey
    THEN [status |-> 500, success |-> FALSE, message |-> <<"no key">>, debug |-> None]
    ELSE IF vendor \in {"ok", "okUnparseable"}
    THEN [status |-> 200, success |-> TRUE, message |-> <<"mail sent">>, debug |-> None]
    ELSE [status |-> 500, success |-> FALSE, message |-> <<"mail not sent">>,
          debug |-> Some([status |-> 500, error |-> <<"vendor error">>])]

\* the answer of the catch block for an exception with the given message
EmailCaught(errorMessage) ==
    [status |-> 200, success |-> TRUE,
     message |-> <<"send attempted (error: ">> \o errorMessage \o <<")">>,
     debug |-> None]

\* emailApi.post('/'): the status and JSON body it answers with
emailApi(body, hasKey, imageFetch, vendor) ==
    IF body.kind = "malformed"
    THEN EmailCaught(<<"Unexpected token in JSON">>)
    ELSE IF body.kind = "null"
    THEN EmailCaught(<<"Cannot destructure property of null">>)
    ELSE IF ~hasKey
    THEN [status |-> 200, success |-> TRUE,
          message |-> <<"mail data logged (no API key)">>, debug |-> None]
    ELSE IF vendor = "throws"
    THEN EmailCaught(<<"fetch failed">>)
    ELSE IF vendor = "ok"
    THEN [status |-> 200, success |-> TRUE, message |-> <<"mail sent">>, debug |-> None]
    ELSE IF vendor = "okUnparseable"
    THEN EmailCaught(<<"Unexpected end of JSON input">>)
    ELSE [status |-> 200, success |-> TRUE,
          message |-> <<"send attempted (Resend error)">>,
          debug |-> Some([status |-> 500,
                          error |-> IF vendor = "notOk" THEN <<"vendor error">>
                                    ELSE <<>>])]

\* the attachments of the mail handed to the vendor, when the route gets there
EmailAttachments(body, hasKey, imageFetch) ==
    IF body.kind = "object" /\ hasKey /\ body.imageUrl # None
    THEN fetchImageAsBase64(body.imageUrl[1], imageFetch)
    ELSE None

PostSendEmail(body, hasKey, imageFetch, vendor) ==
    /\ calc' = [op |-> "emailApi", body |-> body, hasKey |-> hasKey,
                imageFetch |-> imageFetch, vendor |-> vendor,
                attachments |-> EmailAttachments(body, hasKey, imageFetch),
                response |-> emailApi(body, hasKey, imageFetch, vendor)]
    /\ UNCHANGED <<screen, freeText, imageMode, buildingType, otherBuilding, autoChecked,
                   autoDisabled, buttonDisabled, loadingActive, timer, storage,
                   attempts, last, alertMsg, edits, confirm, server>>

-----------------------------------------------------------------------------
(* POST /api/generate and POST /api/creative *)

\* !x of JavaScript for an optional string: undefined and "" are falsy
Falsy(x) == x = None \/ x = Some(<<>>)

\* prompts a request body can carry: none, the empty string, a blank one, a text
BodyPrompts == {None, Some(<<>>), Some(<<" ">>), Some(<<"p">>)}
BodyImages == {None, Some(<<"data:image/jpeg;base64,">>)}
BodyMasks == {None, Some(<<"data:image/png;base64,">>)}

\* numbers a request body can carry (strength in hundredths, guidance in
\* tenths): absent, a value in the vendor's range, values outside of it
BodyStrengths == {None, Some(45), Some(150)}
BodySteps == {None, Some(-1)}
BodyGuidances == {None, Some(0)}

GenerateBodies ==
    {[kind |-> "malformed"]}
        \cup {[kind |-> "object", prompt |-> p, imageData |-> i, maskData |-> m,
               strength |-> st, steps |-> sp, guidance |-> g] :
                p \in BodyPrompts, i \in BodyImages, m \in BodyMasks,
                st \in BodyStrengths, sp \in BodySteps, g \in BodyGuidances}

\* what fal.subscribe can give: images, a result without images, an exception
FalAnswers == {"images", "noImages", "throws"}

\* a destructuring default: the value of the body, or the default when absent
Default(x, d) == IF x = None THEN d ELSE x[1]

\* generateApi.post('/') with the key looked at before the body's fields
generateApiKeyFirst(body, hasKey, vendor) ==
    IF body.kind = "malformed"
    THEN [status |-> 500, success |-> FALSE, uploads |-> 0, falInput |-> None]
    ELSE IF ~hasKey
    THEN [status |-> 500, success |-> FALSE, uploads |-> 0, falInput |-> None]
    ELSE IF Falsy(body.prompt) \/ Falsy(body.imageData) \/ Falsy(body.maskData)
    THEN [status |-> 400, success |-> FALSE, uploads |-> 0, falInput |-> None]
    ELSE [status |-> IF vendor = "images" THEN 200 ELSE 500,
          success |-> vendor = "images",
          uploads |-> 2,
          falInput |-> Some([prompt |-> body.prompt[1],
                             strength |-> Default(body.strength, 52),
                             num_inference_steps |-> Default(body.steps, 35),
                             guidance_scale |-> Default(body.guidance, 70)])]

\* generateApi.post('/'): its status, the number of uploads it made and the
\* input it handed to the vendor
generateApi(body, hasKey, vendor) ==
    IF body.kind = "malformed"
    THEN [status |-> 500, success |-> FALSE, uploads |-> 0, falInput |-> None]
    ELSE IF Falsy(body.prompt) \/ Falsy(body.imageData) \/ Falsy(body.maskData)
    THEN [status |-> 400, success |-> FALSE, uploads |-> 0, falInput |-> None]
    ELSE IF ~hasKey
    THEN [status |-> 500, success |-> FALSE, uploads |-> 0, falInput |-> None]
    ELSE [status |-> IF vendor = "images" THEN 200 ELSE 500,
          success |-> vendor = "images",
          uploads |-> 2,
          falInput |-> Some([prompt |-> body.prompt[1],
                             strength |-> Default(body.strength, 52),
                             num_inference_steps |-> Default(body.steps, 35),
                             guidance_scale |-> Default(body.guidance, 70)])]

PostGenerate(body, hasKey, vendor) ==
    /\ calc' = [op |-> "generateApi", body |-> body, hasKey |-> hasKey,
                vendor |-> vendor, response |-> generateApi(body, hasKey, vendor)]
    /\ UNCHANGED <<screen, freeText, imageMode, buildingType, otherBuilding, autoChecked,
                   autoDisabled, buttonDisabled, loadingActive, timer, storage,
                   attempts, last, alertMsg, edits, confirm, server>>

CreativeBodies ==
    {[kind |-> "malformed"]} \cup {[kind |-> "object", prompt |-> p] : p \in BodyPrompts}

\* what the images endpoint can give
ImagesAnswers == {"url", "b64", "empty", "notOk", "throws"}

\* creativeApi.post('/'): its status and the request it sent to the vendor
creativeApi(body, hasKey, vendor) ==
    IF body.kind = "malformed"
    THEN [status |-> 500, success |-> FALSE, request |-> None]
    ELSE IF Falsy(body.prompt) \/ Trim(body.prompt[1]) = <<>>
    THEN [status |-> 400, success |-> FALSE, request |-> None]
    ELSE IF ~hasKey
    THEN [status |-> 500, success |-> FALSE, request |-> None]
    ELSE [status |-> IF vendor \in {"url", "b64"} THEN 200 ELSE 500,
          success |-> vendor \in {"url", "b64"},
          request |-> Some([prompt |-> body.prompt[1]])]

PostCreative(body, hasKey, vendor) ==
    /\ calc' = [op |-> "creativeApi", body |-> body, hasKey |-> hasKey,
                vendor |-> vendor, response |-> creativeApi(body, hasKey, vendor)]
    /\ UNCHANGED <<screen, freeText, imageMode, buildingType, otherBuilding, autoChecked,
                   autoDisabled, buttonDisabled, loadingActive, timer, storage,
                   attempts, last, alertMsg, edits, confirm, server>>

\* the routes, each answering requests of any body
NextRoutes ==
    \/ \E body \in EmailBodies, hasKey \in BOOLEAN, imageFetch \in ImageFetches,
          vendor \in MailVendorAnswers : PostSendEmail(body, hasKey, imageFetch, vendor)
    \/ \E body \in GenerateBodies, hasKey \in BOOLEAN, vendor \in FalAnswers :
          PostGenerate(body, hasKey, vendor)
    \/ \E body \in CreativeBodies, hasKey \in BOOLEAN, vendor \in ImagesAnswers :
          PostCreative(body, hasKey, vendor)

SpecRoutes == Init /\ [][NextRoutes]_vars

\* the messages of the exceptions the route can catch
EmailErrorMessages ==
    {<<"Unexpected token in JSON">>, <<"Cannot destructure property of null">>,
     <<"fetch failed">>, <<"Unexpected end of JSON input">>}

\* the response carries the message of an exception outside its debug field
ErrorInMessage(response) == \E e \in EmailErrorMessages : Contains(response.message, e)

InVendorRanges(strength, steps, guidance) ==
    /\ 0 <= strength /\ strength <= 100
    /\ steps > 0
    /\ guidance > 0

\* C17 as stated: every request that POST /api/generate forwards to the
\* image-generation vendor carries strength in [0,1], a positive step count
\* and a positive guidance scale, whatever body the route accepted.
C17_ForwardedParamsInVendorRanges ==
    (calc.op = "generateApi" /\ calc.response.falInput # None) =>
        LET input == calc.response.falInput[1]
        IN  InVendorRanges(input.strength, input.num_inference_steps,
                           input.guidance_scale)

\* C18 as stated: POST /api/generate and POST /api/creative answer a request
\* whose prompt is missing, empty or blank with status 400, before any upload
\* and before any vendor call.
C18_BlankPromptNeverReachesVendor ==
    (/\ calc.op \in {"generateApi", "creativeApi"}
     /\ calc.body.kind = "object"
     /\ (calc.body.prompt = None \/ Trim(calc.body.prompt[1]) = <<>>)) =>
        /\ calc.response.status = 400
        /\ calc.op = "generateApi" =>
              calc.response.uploads = 0 /\ calc.response.falInput = None
        /\ calc.op = "creativeApi" => calc.response.request = None

\* C14: for each of the selections fountain, merry-go-round and cafe-stand,
\* with the auto-prompt on or off, every prompt sent to /api/generate contains
\* 'Install a <name> in the central plaza area' with the name that
\* BUILDING_TYPE_NAMES gives the selection.
C14_ListedBuildingInstructionInPrompt ==
    \A a \in AllAttempts : \A q \in InpaintRequests(a) :
        a.buildingType \in ClosedBuildings =>
            Contains(q.body.prompt,
                     <<"Install a", " ">> \o BUILDING_TYPE_NAMES[a.buildingType]
                        \o <<" ", "in the central plaza area">>)

\* a call for the cafe stand whose auto-prompt translation succeeded has sent
\* its prompt, the instruction in it
C14_Witness ==
    \E i \in DOMAIN attempts :
        /\ attempts[i].buildingType = "cafe-stand"
        /\ attempts[i].isAutoPromptEnabled
        /\ attempts[i].translation # <<>>
        /\ attempts[i].translation[1].success
        /\ attempts[i].pc = "awaitImage"
        /\ \E q \in InpaintRequests(attempts[i]) :
              Contains(q.body.prompt,
                       <<"Install a", " ", "Stylish cafe stand", " ",
                         "in the central plaza area">>)

EndsWith(s, t) == Len(s) >= Len(t) /\ SubSeq(s, Len(s) - Len(t) + 1, Len(s)) = t

\* the calls in literal mode for a listed building: auto-prompt off, mode
\* not creative
LiteralListed(a) ==
    /\ ~a.isAutoPromptEnabled
    /\ ~a.isCreativeMode
    /\ a.buildingType \in ClosedBuildings

\* the seven fixed segments of the literal prompt for building b, in order
LiteralSegments(b) ==
    <<SCENE_BASE, MODIFICATION_INSTRUCTION,
      <<"Install a", " ">> \o BUILDING_TYPE_NAMES[b] \o <<" ", "in the central plaza area">>,
      STYLE_TAG, LIGHTING_TAG, COMPOSITION_TAG, VISIBILITY_TAG>>

\* C15 as stated: in literal mode with non-empty free text and a listed
\* building, the prompt begins with the scene anchor, carries the seven fixed
\* segments in their order, and ends with the free text verbatim.  (The form
\* is not edited while the call is in flight, so freeText is what was sent.)
C15_LiteralPromptEndsWithFreeText ==
    \A i \in DOMAIN attempts : \A q \in InpaintRequests(attempts[i]) :
        (LiteralListed(attempts[i]) /\ freeText # <<>>) =>
            LET segs == LiteralSegments(attempts[i].buildingType)
            IN  /\ BeginsWith(q.body.prompt, SCENE_BASE)
                /\ \A k \in 1 .. 6 :
                      /\ IndexOf(q.body.prompt, segs[k]) > 0
                      /\ IndexOf(q.body.prompt, segs[k]) < IndexOf(q.body.prompt, segs[k + 1])
                /\ EndsWith(q.body.prompt, freeText)

\* C15, amended: in literal mode with a listed building the prompt is the
\* seven fixed segments in the order scene anchor, modification scope,
\* building instruction, style tag, lighting tag, composition tag, crowd
\* clause ('AT LEAST 30 to 50 people'), joined by ',\n', followed, when the
\* free text is not blank, by ',\n' and the free text with its surrounding
\* white space trimmed off.  A blank free text adds nothing: the prompt then
\* ends with the crowd clause.
C15_LiteralPromptEndsWithTrimmedFreeText ==
    \A i \in DOMAIN attempts : \A q \in InpaintRequests(attempts[i]) :
        LiteralListed(attempts[i]) =>
            LET t == Trim(freeText)
                fixed == Join(LiteralSegments(attempts[i].buildingType), SEP)
            IN  /\ attempts[i].freeTextValue = t
                /\ q.body.prompt = IF t = <<>> THEN fixed ELSE fixed \o SEP \o t
                /\ BeginsWith(q.body.prompt, SCENE_BASE)
                /\ EndsWith(q.body.prompt, IF t = <<>> THEN VISIBILITY_TAG ELSE t)

\* a literal call for the fountain with padded free text has sent its prompt,
\* which ends with the trimmed text and not with the text as typed
C15_Witness ==
    \E i \in DOMAIN attempts :
        /\ LiteralListed(attempts[i])
        /\ attempts[i].buildingType = "fountain"
        /\ freeText = <<" ", "a", "\n">>
        /\ attempts[i].pc = "awaitImage"
        /\ \E q \in InpaintRequests(attempts[i]) :
              /\ EndsWith(q.body.prompt, VISIBILITY_TAG \o SEP \o <<"a">>)
              /\ ~EndsWith(q.body.prompt, freeText)

\* the guidance ceiling under backlit lighting, in tenths
BacklitCeiling(style) == IF style = "photo" THEN 68 ELSE 82

\* C16: for backlit lighting, for every style and every input guidance, the
\* guidance applySafetyTweaks returns is at most the ceiling (6.8 for the
\* photo style, 8.2 for every other style) and never larger than the input
\* guidance; so is the guidance of the parameter selection from PARAM_TABLE.
C16_BacklitGuidanceCapped ==
    /\ (calc.op = "applySafetyTweaks" /\ calc.lighting = "backlit") =>
          /\ calc.once.guidance <= BacklitCeiling(calc.style)
          /\ calc.once.guidance <= calc.p.guidance
    /\ (calc.op = "selectParams" /\ calc.lighting = "backlit") =>
          /\ calc.params.guidance <= BacklitCeiling(calc.style)
          /\ calc.params.guidance <= calc.baseParams.guidance

\* backlit photo with an input guidance above the ceiling: cut down to 6.8
C16_Witness ==
    /\ calc.op = "applySafetyTweaks"
    /\ calc.lighting = "backlit"
    /\ calc.style = "photo"
    /\ calc.p.guidance = 84
    /\ calc.once.guidance = 68

-----------------------------------------------------------------------------
(* The image-to-image routes with the module-level uploadedImageUrl *)

\* the browser sessions that call the routes, and the image each one holds
Sessions == {"A", "B"}
ImageOf(s) == <<"image of session ", s>>

\* the URL fal.storage.upload gives an image
StoredUrl(image) == <<"https://fal.media">> \o <<"/files/">> \o image

DEFAULT_SAMPLE_URL == <<"https://fal.media", "/files/koala/Chls9L2ZnvuipUTEwlnJC.png">>

\* String.prototype.startsWith('https://fal.media') on an optional string
StartsWithFalMedia(url) == url # None /\ url[1] # <<>> /\ url[1][1] = "https://fal.media"

\* the bodies a session can post to /upload and to /
UploadBodies(s) == {[imageData |-> None], [imageData |-> Some(ImageOf(s))]}
ImageToImageBodies(s) ==
    {[prompt |-> p, imageUrl |-> u, imageData |-> d] :
        p \in {None, Some(<<"p">>)},
        u \in {None, Some(StoredUrl(ImageOf(s))), Some(<<"https://example.com/x.jpg">>)},
        d \in {None, Some(ImageOf(s))}}

\* generateApi.post('/upload') up to its await of fal.storage.upload
PostUpload(s, body, hasKey) ==
    /\ IF ~hasKey
       THEN server' = [server EXCEPT !.answered =
                          Some([route |-> "/upload", session |-> s, status |-> 500,
                                image_url |-> None])]
       ELSE IF Falsy(body.imageData)
       THEN server' = [server EXCEPT !.answered =
                          Some([route |-> "/upload", session |-> s, status |-> 400,
                                image_url |-> None])]
       ELSE server' = [server EXCEPT !.requests =
                          @ \cup {[session |-> s, imageData |-> body.imageData[1]]}]
    /\ UNCHANGED <<calc, screen, freeText, imageMode, buildingType, otherBuilding,
                   autoChecked, autoDisabled, buttonDisabled, loadingActive, timer,
                   storage, attempts, last, alertMsg, edits, confirm>>

\* fal.storage.upload settles: the URL is kept in uploadedImageUrl and
\* answered, or the exception is answered with status 500
UploadSettles(r, stored) ==
    /\ r \in server.requests
    /\ server' = IF stored
                 THEN [uploadedImageUrl |-> Some(StoredUrl(r.imageData)),
                       requests |-> server.requests \ {r},
                       answered |-> Some([route |-> "/upload", session |-> r.session,
                                          status |-> 200,
                                          image_url |-> Some(StoredUrl(r.imageData))])]
                 ELSE [server EXCEPT !.requests = @ \ {r},
                                     !.answered =
                                         Some([route |-> "/upload", session |-> r.session,
                                               status |-> 500, image_url |-> None])]
    /\ UNCHANGED <<calc, screen, freeText, imageMode, buildingType, otherBuilding,
                   autoChecked, autoDisabled, buttonDisabled, loadingActive, timer,
                   storage, attempts, last, alertMsg, edits, confirm>>

\* targetImageUrl of generateApi.post('/'): the image handed to the vendor
targetImageUrl(body, uploaded) ==
    IF ~Falsy(body.imageData) THEN StoredUrl(body.imageData[1])
    ELSE IF ~Falsy(body.imageUrl) /\ StartsWithFalMedia(body.imageUrl) THEN body.imageUrl[1]
    ELSE IF ~Falsy(uploaded) THEN uploaded[1]
    ELSE DEFAULT_SAMPLE_URL

\* generateApi.post('/') of the image-to-image module
PostImageToImage(s, body, hasKey, vendorOk) ==
    /\ server' = [server EXCEPT !.answered =
          Some([route |-> "/", session |-> s, body |-> body,
                status |-> IF Falsy(body.prompt) THEN 400
                           ELSE IF ~hasKey \/ ~vendorOk THEN 500
                           ELSE 200,
                image_url |-> IF Falsy(body.prompt) \/ ~hasKey THEN None
                              ELSE Some(targetImageUrl(body, server.uploadedImageUrl))])]
    /\ UNCHANGED <<calc, screen, freeText, imageMode, buildingType, otherBuilding,
                   autoChecked, autoDisabled, buttonDisabled, loadingActive, timer,
                   storage, attempts, last, alertMsg, edits, confirm>>

NextUpload ==
    \/ \E s \in Sessions, hasKey \in BOOLEAN : \E body \in UploadBodies(s) :
          PostUpload(s, body, hasKey)
    \/ \E r \in server.requests, stored \in BOOLEAN : UploadSettles(r, stored)
    \/ \E s \in Sessions, hasKey \in BOOLEAN, vendorOk \in BOOLEAN :
          \E body \in ImageToImageBodies(s) : PostImageToImage(s, body, hasKey, vendorOk)

SpecUpload == Init /\ [][NextUpload]_vars

\* C19 as stated: under any interleaving of upload and generate requests of
\* different sessions, the image a generate request sends to the vendor is
\* determined by that request's own body alone, never by an image another
\* request uploaded.
C19_VendorImageFromOwnBody ==
    (/\ server.answered # None
     /\ server.answered[1].route = "/"
     /\ server.answered[1].image_url # None) =>
        /\ server.answered[1].image_url[1] = targetImageUrl(server.answered[1].body, None)
        /\ \A s \in Sessions \ {server.answered[1].session} :
              server.answered[1].image_url[1] # StoredUrl(ImageOf(s))

\* C20 as stated: whenever the wizard returns to the top screen through the
\* back button of the result screen or the home button of the complete
\* screen, after any sequence of screens, session storage holds none of
\* generationData, generatedImageUrl and nickname.
C20_StorageEmptyOnReturnToTop ==
    [][(screen \in {"result", "complete"} /\ screen' = "top") =>
           storage' = EmptyStorage]_vars

\* C21 as stated: in every reachable state of the image-display form the
\* submit control is enabled only if the trimmed free text is non-empty, and
\* no generation attempt is started while the trimmed free text is empty.
C21_SubmitEnabledOnlyWithText ==
    /\ (screen = "image-display" /\ ~buttonDisabled) => Trim(freeText) # <<>>
    /\ \A a \in AllAttempts : a.freeTextValue # <<>>

-----------------------------------------------------------------------------
(* The form submitted again while a call is in flight *)

\* the form filled in and ready to submit: a free text typed, any generation
\* type, the auto-prompt left off
InitResubmit ==
    /\ calc = NoCalc
    /\ screen = "image-display"
    /\ freeText = <<"a">>
    /\ imageMode \in ImageModes
    /\ buildingType = "fountain"
    /\ otherBuilding = <<>>
    /\ autoChecked = FALSE
    /\ autoDisabled = (imageMode = "creative")
    /\ buttonDisabled = FALSE
    /\ loadingActive = FALSE
    /\ timer = NoTimer
    /\ storage = EmptyStorage
    /\ attempts = <<>>
    /\ last = NoAttempt
    /\ alertMsg = <<>>
    /\ edits = 0
    /\ confirm = NoConfirm
    /\ server = NoServer

NextResubmit ==
    \/ \E t \in FormTexts : InputFreeText(t)
    \/ \E m \in ImageModes : ChangeImageMode(m)
    \/ HandleGenerate
    \/ \E i \in DOMAIN attempts : ImageResponds(i)

SpecResubmit == InitResubmit /\ [][NextResubmit]_vars

\* C22 as stated: in every reachable state where session storage holds both
\* generationData and generatedImageUrl, the URL is the one returned for the
\* request that generationData describes: both come from the call that
\* succeeded.
C22_StoredUrlBelongsToStoredData ==
    (storage.generationData # None /\ storage.generatedImageUrl # None) =>
        /\ last.pc = "succeeded"
        /\ storage.generationData[1] = GenerationData(last, last.prompt)
        /\ storage.generatedImageUrl[1] = ImageUrlFor(last.sent[Len(last.sent)])

\* C23 as stated: getFalParams returns PARAM_TABLE[style][lighting] when both
\* keys are known; for a style the table does not know it uses the photo row,
\* for a lighting the row does not know the natural-light column; for every
\* pair of inputs it returns a record with strength, steps and guidance.
C23_LookupFallsBackAndIsDefined ==
    calc.op = "getFalParams" =>
        LET row == IF calc.style \in Styles THEN calc.style ELSE "photo"
            column == IF calc.lighting \in Lightings THEN calc.lighting ELSE "natural"
        IN  /\ DOMAIN calc.out = {"strength", "steps", "guidance"}
            /\ calc.out = PARAM_TABLE[row][column]

\* C24: for dramatic lighting applySafetyTweaks returns
\* steps = max(30, input steps - 2), which is never below 30; for every
\* other lighting the steps are returned unchanged; strength is never changed.
C24_DramaticStepsFloored ==
    calc.op = "applySafetyTweaks" =>
        /\ calc.once.strength = calc.p.strength
        /\ calc.lighting = "dramatic" =>
              /\ calc.once.steps = (IF calc.p.steps - 2 > 30 THEN calc.p.steps - 2 ELSE 30)
              /\ calc.once.steps >= 30
        /\ calc.lighting # "dramatic" => calc.once.steps = calc.p.steps

\* dramatic lighting on steps 31: the floor of 30 applies, not 29
C24_Witness ==
    /\ calc.op = "applySafetyTweaks"
    /\ calc.lighting = "dramatic"
    /\ calc.p.steps = 31
    /\ calc.once.steps = 30
    /\ calc.once.strength = calc.p.strength

-----------------------------------------------------------------------------
(* The wizard when every collaborator call settles *)

\* every fetch of a call in flight resolves or rejects
SpecSettling ==
    /\ Init
    /\ [][Next]_vars
    /\ WF_vars(\E i \in DOMAIN attempts : TranslateResponds(i))
    /\ WF_vars(\E i \in DOMAIN attempts : ImageResponds(i))

\* the handles a call can bear
CallIds == 1 .. (MaxEdits + 1)

\* the step ends a call: one that was in flight is in flight no more
CallEnds == \E i \in DOMAIN attempts : i \notin DOMAIN attempts'

\* C25 as stated: provided every collaborator call settles, no call stays in
\* flight forever, and a call ends in one of two ways: the screen changes to
\* /result with generatedImageUrl stored, or the form is back with the
\* loading overlay hidden, the elapsed-time timer stopped (no interval left
\* running) and the submit control enabled.
C25_AttemptEndsInOneOfTwoOutcomes ==
    /\ \A i \in CallIds : (i \in DOMAIN attempts) ~> (i \notin DOMAIN attempts)
    /\ [][(CallEnds /\ screen' = "image-display") =>
             /\ ~loadingActive'
             /\ timer'.active = {}
             /\ ~buttonDisabled']_vars
    /\ [][(CallEnds /\ screen' = "result" /\ storage' # storage) =>
             storage'.generatedImageUrl # None]_vars

-----------------------------------------------------------------------------
(* POST /api/generate: validation before any outside call *)

\* a field of the body that the route takes as given
Present(x) == ~Falsy(x)

\* C26: POST /api/generate uploads nothing and calls no vendor unless prompt,
\* imageData, maskData and the API key are all present; a missing prompt,
\* image or mask is answered 400 (also when the key is missing too), a
\* missing key alone is answered 500, each with success = false.
C26_GenerateValidatesBeforeCalling ==
    (calc.op = "generateApi" /\ calc.body.kind = "object") =>
        LET fields == /\ Present(calc.body.prompt)
                      /\ Present(calc.body.imageData)
                      /\ Present(calc.body.maskData)
            r == calc.response
        IN  /\ ~fields => (r.status = 400 /\ ~r.success)
            /\ (fields /\ ~calc.hasKey) => (r.status = 500 /\ ~r.success)
            /\ (r.uploads > 0 \/ r.falInput # None) => (fields /\ calc.hasKey)

\* a request without prompt and without key: the prompt is reported, as 400
C26_Witness ==
    /\ calc.op = "generateApi"
    /\ calc.body.kind = "object"
    /\ calc.body.prompt = None
    /\ Present(calc.body.imageData)
    /\ Present(calc.body.maskData)
    /\ ~calc.hasKey
    /\ calc.response.status = 400
    /\ calc.response.uploads = 0
    /\ calc.response.falInput = None

-----------------------------------------------------------------------------
(* The end of handleGenerate *)

\* the answers to call i's image request that the success branch accepts
AcceptedAnswers(i) ==
    {r \in ImageAnswers(attempts[i].sent[Len(attempts[i].sent)]) :
        /\ "transport" \notin DOMAIN r
        /\ r.success
        /\ r.imageUrl # <<>>}

\* C27: generatedImageUrl is written and the screen changes to /result only
\* on an answer with success = true and a non-empty imageUrl, whose URL is the
\* one written; a call that ends in the catch block writes no
\* generatedImageUrl, leaves the screen on the form and shows its error
\* message in the alert.
C27_ResultOnlyAfterSuccessWithUrl ==
    [][/\ (screen' # screen \/ storage'.generatedImageUrl # storage.generatedImageUrl) =>
              /\ screen' = "result"
              /\ \E i \in DOMAIN attempts :
                    /\ attempts[i].pc = "awaitImage"
                    /\ \E r \in AcceptedAnswers(i) :
                          storage'.generatedImageUrl = Some(r.imageUrl)
       /\ (last' # last /\ last'.pc = "failed") =>
              /\ storage'.generatedImageUrl = storage.generatedImageUrl
              /\ screen' = "image-display"
              /\ last'.error # <<>>
              /\ alertMsg' = <<"An error occurred during image generation:\n">>
                                 \o last'.error]_vars

\* a call has ended on /result with the URL of its answer stored
C27_Witness ==
    /\ screen = "result"
    /\ last.pc = "succeeded"
    /\ storage.generatedImageUrl = Some(ImageUrlFor(last.sent[Len(last.sent)]))

-----------------------------------------------------------------------------
(* The prompt on record and the prompt sent *)

\* call i sends its image request in this step
SendsImageRequest(i) ==
    /\ i \in DOMAIN attempts'
    /\ attempts'[i].pc = "awaitImage"
    /\ (i \in DOMAIN attempts => attempts[i].pc # "awaitImage")

\* C28 as stated: in every mode, when a call sends its request to the image
\* collaborator, the prompt recorded in generationData is the prompt of that
\* request.
C28_RecordedPromptIsSentPrompt ==
    [][\A i \in DOMAIN attempts' :
          SendsImageRequest(i) =>
              /\ storage'.generationData # None
              /\ storage'.generationData[1].prompt =
                     attempts'[i].sent[Len(attempts'[i].sent)].prompt]_vars

-----------------------------------------------------------------------------
(* The building on the confirm screen *)

\* the building the user chose on the form of call a, as the confirm screen
\* names buildings
SelectedBuilding(a) ==
    IF a.buildingType = "other"
    THEN OrElse(a.otherBuildingValue, <<"other (ja)">>)
    ELSE BUILDING_TYPE_NAMES_JA[a.buildingType]

\* the options fields displaySettings and handleSaveAndNext read
ConfirmReads(a) ==
    {"imageMode", "buildingType", "freeText", "autoPrompt"}
        \cup (IF a.buildingType = "other" THEN {"buildingPrompt"} ELSE {})

\* C29 as stated: on the confirm screen after a successful generation, every
\* options field the screen reads was written by the generating screen, and
\* the building shown and the building sent in the email are the building
\* the user selected (its Japanese name, or the other-building text).
C29_ConfirmShowsSelectedBuilding ==
    (screen = "confirm" /\ last.pc = "succeeded" /\ storage.generationData # None) =>
        LET options == storage.generationData[1].options
        IN  /\ ConfirmReads(last) \subseteq DOMAIN options
            /\ BuildingNameOf(options) = SelectedBuilding(last)
            /\ \A c \in confirm.mails : c.emailData.building = SelectedBuilding(last)

-----------------------------------------------------------------------------
(* The elapsed-time interval *)

\* C30 as stated: at most one elapsed-time interval is active at any time,
\* none is active while no call of handleGenerate is in flight, and so every
\* interval startElapsedTimer created has been cleared once its call ended.
C30_AtMostOneIntervalNoneWhenIdle ==
    /\ Cardinality(timer.active) <= 1
    /\ attempts = <<>> => timer.active = {}
    /\ \A id \in timer.active : id \in DOMAIN attempts

====
